---- MODULE Spec2Model ----
(***************************************************************************)
(* Typeform -> amoCRM reconciliation service.                              *)
(*                                                                         *)
(* The model follows the webhook handler of src/src/index.ts step by step  *)
(* (one action per await point), the Submission Ledger and Credential      *)
(* Store of db.ts and the CRM client of amocrm.ts (both in                 *)
(* src/unnamed/part_001), the contact extraction of src/src/typeform.ts    *)
(* and the field mapper of src/src/mapping.ts.                             *)
(*                                                                         *)
(* Not modelled: the signature gate in front of the handler, JSON parsing  *)
(* of the raw body, failures of the persistence layer, and the request     *)
(* bodies sent to the CRM beyond what decides control flow.                *)
(***************************************************************************)
EXTENDS Integers, Sequences, FiniteSets, TLC

(***************************************************************************)
(* Bounds of the model.                                                    *)
(***************************************************************************)
\* deliveries started in one behaviour of Spec
MaxDeliveries == 3
\* failing answers (CRM object API and token endpoint) in one behaviour of Spec
MaxFaults == 2
\* direct upserts in one behaviour of SpecLedger
MaxUpserts == 2
\* deliveries started in one behaviour of SpecConc
MaxConcDeliveries == 2
\* failing answers in one behaviour of SpecConc
MaxConcFaults == 1
\* deliveries started in one behaviour of SpecRefresh
MaxRefreshDeliveries == 2
\* failing answers in one behaviour of SpecRefresh
MaxRefreshFaults == 2
\* answers of a payload given to the field mapper in SpecMapper
MaxAnswers == 2
\* deliveries started in one behaviour of SpecAuth
MaxAuthDeliveries == 1
\* failing answers in one behaviour of SpecAuth
MaxAuthFaults == 2
MaxLandingDeliveries == 3
MaxLandingFaults == 1

(***************************************************************************)
(* Values.  JavaScript undefined/null of a string is Null, of a numeric    *)
(* CRM id is NoId (the CRM assigns ids from 1), of an answer text is Undef.*)
(* Answer texts are sequences of one-character strings so that trim() and  *)
(* emptiness can be computed.                                              *)
(***************************************************************************)
Null == "null"
NoId == 0
Undef == <<"undefined">>

\* JavaScript truthiness of an optional string id
Truthy(x) == x # Null /\ x # ""
\* JavaScript truthiness of an optional numeric id
HasId(n) == n # NoId
\* JavaScript truthiness of an optional text
TruthyText(s) == s # Undef /\ s # <<>>

RECURSIVE TrimLeft(_)
TrimLeft(s) == IF s # <<>> /\ Head(s) = " " THEN TrimLeft(Tail(s)) ELSE s

RECURSIVE TrimRight(_)
TrimRight(s) ==
    IF s # <<>> /\ s[Len(s)] = " " THEN TrimRight(SubSeq(s, 1, Len(s) - 1)) ELSE s

\* String.prototype.trim
Trim(s) == TrimRight(TrimLeft(s))

(***************************************************************************)
(* Inbound events (typeform.ts: TypeformWebhookPayload).                   *)
(***************************************************************************)
\* An answer with no value slot populated.  boolean is "true", "false" or
\* Null; number is a natural number or -1 when absent; choices_labels is a
\* sequence of texts.
Answer(type, ref) ==
    [type |-> type, id |-> "id_" \o ref, ref |-> ref, text |-> Undef, email |-> Undef,
     phone_number |-> Undef, boolean |-> Null, number |-> -1, date |-> Undef,
     choice_label |-> Undef, choices_labels |-> <<>>]

\* hidden is a sequence of key/value pairs in insertion order (Object.entries)
NoHidden == <<>>

Payload(eid, etype, form, token, landing, submitted, hidden, answers) ==
    [event_id |-> eid, event_type |-> etype, form_id |-> form, token |-> token,
     landing_id |-> landing, submitted_at |-> submitted,
     hidden |-> hidden, answers |-> answers]

EmailAnswer == [Answer("email", "ref_email") EXCEPT !.email = <<"a", "@", "b">>]
NameAnswer == [Answer("text", "ref_name") EXCEPT !.text = <<" ", "J", "o", " ">>]
ShortAnswer == [Answer("text", "ref_note") EXCEPT !.text = <<"x", " ">>]
UtmHidden == <<[k |-> "utm_source", v |-> <<"a", "d", "s">>]>>

\* The deliveries the environment may make.  e1..e3 describe response t1
\* (e3 carries no event id and no event type), e4 describes response t2 made
\* on the same landing page, e5 and e6 are malformed, and the last event
\* describes response t3 on that landing page under the event id of e1.
Events ==
    << Payload("e1", "form_response", "f1", "t1", "L1", "2024-01-01",
               UtmHidden, <<EmailAnswer>>),
       Payload("e2", "form_response", "f1", "t1", Null, Null,
               NoHidden, <<ShortAnswer>>),
       Payload(Null, Null, "f1", "t1", "L1", "2024-01-02",
               NoHidden, <<NameAnswer, EmailAnswer>>),
       Payload("e4", "form_response", "f1", "t2", "L1", "2024-01-03",
               NoHidden, <<NameAnswer>>),
       Payload("e5", "form_response", "f1", Null, Null, Null,
               NoHidden, <<EmailAnswer>>),
       Payload("e6", "form_response", Null, "t2", "L1", Null,
               NoHidden, <<>>),
       Payload("e1", "form_response", "f1", "t3", "L1", "2024-01-04",
               NoHidden, <<ShortAnswer>>) >>

EventIds == 1..Len(Events)

RECURSIVE HiddenGet(_, _)
HiddenGet(hidden, k) ==
    IF hidden = <<>> THEN Undef
    ELSE IF Head(hidden).k = k THEN Head(hidden).v ELSE HiddenGet(Tail(hidden), k)

RECURSIVE FirstEmail(_)
FirstEmail(as) ==
    IF as = <<>> THEN Undef
    ELSE IF TruthyText(Head(as).email) THEN Head(as).email ELSE FirstEmail(Tail(as))

RECURSIVE FirstPhone(_)
FirstPhone(as) ==
    IF as = <<>> THEN Undef
    ELSE IF TruthyText(Head(as).phone_number) THEN Head(as).phone_number
    ELSE FirstPhone(Tail(as))

RECURSIVE FirstName(_)
FirstName(as) ==
    IF as = <<>> THEN Undef
    ELSE IF /\ Head(as).type = "text"
            /\ TruthyText(Head(as).text)
            /\ Len(Trim(Head(as).text)) > 1
         THEN Trim(Head(as).text)
         ELSE FirstName(Tail(as))

extractContactBits(payload) ==
    LET e == FirstEmail(payload.answers)
        p == FirstPhone(payload.answers)
        n == FirstName(payload.answers)
        he == HiddenGet(payload.hidden, "email")
        hp == HiddenGet(payload.hidden, "phone")
        hn == HiddenGet(payload.hidden, "name")
    IN  [name  |-> IF ~TruthyText(n) /\ TruthyText(hn) THEN hn ELSE n,
         email |-> IF ~TruthyText(e) /\ TruthyText(he) THEN he ELSE e,
         phone |-> IF ~TruthyText(p) /\ TruthyText(hp) THEN hp ELSE p]

(***************************************************************************)
(* Field Mapper (mapping.ts).  The result is the Map outByFieldId as a     *)
(* sequence of entries in insertion order; an entry's value is Undef and   *)
(* its enum_id is NoId when the key is absent from the assignment.         *)
(***************************************************************************)
HIDDEN_TO_LEAD_FIELD_ID ==
    [k \in {"utm_content", "utm_medium", "utm_campaign", "utm_source", "utm_term",
            "utm_referrer", "roistat", "referrer", "openstat_service",
            "openstat_campaign", "openstat_ad", "openstat_source", "from",
            "gclientid", "_ym_uid", "_ym_counter", "gclid", "yclid", "fbclid"} |->
        CASE k = "utm_content" -> 214691
          [] k = "utm_medium" -> 214693
          [] k = "utm_campaign" -> 214695
          [] k = "utm_source" -> 214697
          [] k = "utm_term" -> 214699
          [] k = "utm_referrer" -> 214701
          [] k = "roistat" -> 214703
          [] k = "referrer" -> 214705
          [] k = "openstat_service" -> 214707
          [] k = "openstat_campaign" -> 214709
          [] k = "openstat_ad" -> 214711
          [] k = "openstat_source" -> 214713
          [] k = "from" -> 214715
          [] k = "gclientid" -> 214717
          [] k = "_ym_uid" -> 214719
          [] k = "_ym_counter" -> 214721
          [] k = "gclid" -> 214723
          [] k = "yclid" -> 214725
          [] k = "fbclid" -> 214727]

DEFAULT_REFS ==
    [fullName |-> {"fd704be3-ad3e-4290-b60d-7f975b55ae84", "3e231887-ca36-4afd-aefa-119d3c7e710d"},
     childName |-> {"8c517346-f61c-4275-ae57-1a088af15cfe", "2fa4a64a-dac4-4ace-98a3-18419435d831"},
     childDob |-> {"d35af5e7-1255-485c-a445-d49d2c682fd2", "98e1c79c-bdb2-4534-bf70-5894ed7e9c2b"},
     desiredProgram |-> {"f1da7df1-b0b0-4fc7-8cd4-0bf95cfdcd2b", "c90719d9-e6d8-4fbe-9d4b-c05953644281"},
     currentEducation |-> {"658c6abe-395a-4362-9124-6304202d443b", "b1a6060f-4d88-4be0-ae79-8944452c3c1a"}]

LEAD_FIELD ==
    [fullName |-> 985897, childName1 |-> 995889, childDob1 |-> 995891,
     desiredProgram |-> 995887, currentEducation |-> 985895]

DESIRED_PROGRAM_ENUM ==
    [kindergarden |-> 1222831, ibSchool |-> 1222835, consultation |-> 1222837]

Digits == {"0", "1", "2", "3", "4", "5", "6", "7", "8", "9"}

\* /^\d{4}-\d{2}-\d{2}$/
IsIsoDate(s) ==
    /\ Len(s) = 10
    /\ \A i \in {1, 2, 3, 4, 6, 7, 9, 10} : s[i] \in Digits
    /\ s[5] = "-"
    /\ s[8] = "-"

\* the suffix is kept as one element: nothing downstream looks inside it
toAmoDateTime(value) ==
    IF ~TruthyText(value) THEN Undef
    ELSE IF ~IsIsoDate(Trim(value)) THEN Trim(value)
    ELSE Trim(value) \o <<"T00:00:00+00:00">>

UpperCase == <<"A", "B", "C", "D", "E", "F", "G", "H", "I", "J", "K", "L", "M",
               "N", "O", "P", "Q", "R", "S", "T", "U", "V", "W", "X", "Y", "Z">>
LowerCase == <<"a", "b", "c", "d", "e", "f", "g", "h", "i", "j", "k", "l", "m",
               "n", "o", "p", "q", "r", "s", "t", "u", "v", "w", "x", "y", "z">>

LowerChar(c) ==
    IF \E i \in 1..26 : UpperCase[i] = c
    THEN LowerCase[CHOOSE i \in 1..26 : UpperCase[i] = c]
    ELSE c

\* String.prototype.toLowerCase
ToLowerCase(s) == [i \in 1..Len(s) |-> LowerChar(s[i])]

StartsWith(s, p) == Len(s) >= Len(p) /\ SubSeq(s, 1, Len(p)) = p

Includes(s, p) ==
    \E i \in 1..(Len(s) - Len(p) + 1) : SubSeq(s, i, i + Len(p) - 1) = p

\* a Cyrillic letter is the element "uXXXX" naming its code point
mapDesiredProgramEnum(label) ==
    IF ~TruthyText(label) THEN NoId
    ELSE LET s == ToLowerCase(Trim(label)) IN
         IF StartsWith(s, <<"i", "b", " ", "k", "g">>) THEN DESIRED_PROGRAM_ENUM.kindergarden
         ELSE IF StartsWith(s, <<"p", "y", "p">>) THEN DESIRED_PROGRAM_ENUM.ibSchool
         ELSE IF StartsWith(s, <<"m", "y", "p">>) THEN DESIRED_PROGRAM_ENUM.ibSchool
         ELSE IF StartsWith(s, <<"d", "p">>) THEN DESIRED_PROGRAM_ENUM.ibSchool
         ELSE IF Includes(s, <<"n", "o", "t", " ", "s", "u", "r", "e">>)
              THEN DESIRED_PROGRAM_ENUM.consultation
         ELSE IF Includes(s, <<"u043d", "u0435", " ", "u0443", "u0432", "u0435", "u0440", "u0435", "u043d">>)
              THEN DESIRED_PROGRAM_ENUM.consultation
         ELSE NoId

\* String(n) for a natural number
RECURSIVE NumberToString(_)
NumberToString(n) ==
    LET d == <<"0", "1", "2", "3", "4", "5", "6", "7", "8", "9">>[(n % 10) + 1]
    IN  IF n < 10 THEN <<d>> ELSE NumberToString(n \div 10) \o <<d>>

\* labels.join(", ")
RECURSIVE JoinLabels(_)
JoinLabels(labels) ==
    IF labels = <<>> THEN <<>>
    ELSE IF Len(labels) = 1 THEN Head(labels)
    ELSE Head(labels) \o <<",", " ">> \o JoinLabels(Tail(labels))

getAnswerString(a) ==
    IF TruthyText(a.text) THEN a.text
    ELSE IF TruthyText(a.email) THEN a.email
    ELSE IF TruthyText(a.phone_number) THEN a.phone_number
    ELSE IF a.boolean # Null
         THEN (IF a.boolean = "true" THEN <<"t", "r", "u", "e">>
                                     ELSE <<"f", "a", "l", "s", "e">>)
    ELSE IF a.number >= 0 THEN NumberToString(a.number)
    ELSE IF TruthyText(a.date) THEN toAmoDateTime(a.date)
    ELSE IF TruthyText(a.choice_label) THEN a.choice_label
    ELSE IF Len(a.choices_labels) > 0 THEN JoinLabels(a.choices_labels)
    ELSE Undef

\* a map in which the first value set for a key stays
MapSetKeepFirst(out, entry) ==
    IF \E i \in 1..Len(out) : out[i].field_id = entry.field_id
    THEN out
    ELSE Append(out, entry)

\* Map.prototype.set: an existing key keeps its place, a new key is appended
MapSet(out, entry) ==
    IF \E i \in 1..Len(out) : out[i].field_id = entry.field_id
    THEN [i \in 1..Len(out) |->
            IF out[i].field_id = entry.field_id THEN entry ELSE out[i]]
    ELSE Append(out, entry)

\* a put that records whatever it is given
putAnything(out, fieldId, value, enumId) ==
    MapSet(out, [field_id |-> fieldId, value |-> value, enum_id |-> enumId])

put(out, fieldId, value, enumId) ==
    IF (value = Undef \/ Len(Trim(value)) = 0) /\ enumId = NoId THEN out
    ELSE MapSet(out, [field_id |-> fieldId,
                      value |-> IF TruthyText(value) THEN Trim(value) ELSE Undef,
                      enum_id |-> enumId])

RECURSIVE PutHidden(_, _)
PutHidden(out, hidden) ==
    IF hidden = <<>> THEN out
    ELSE LET h == Head(hidden) IN
         IF h.k \notin DOMAIN HIDDEN_TO_LEAD_FIELD_ID \/ Len(Trim(h.v)) = 0
         THEN PutHidden(out, Tail(hidden))
         ELSE PutHidden(put(out, HIDDEN_TO_LEAD_FIELD_ID[h.k], h.v, NoId), Tail(hidden))

AnswerKey(a) == IF a.ref # Null THEN a.ref ELSE a.id

PutDefaultRefs(out, a) ==
    LET key == AnswerKey(a)
        o1 == IF key \in DEFAULT_REFS.fullName
              THEN put(out, LEAD_FIELD.fullName, a.text, NoId) ELSE out
        o2 == IF key \in DEFAULT_REFS.childName
              THEN put(o1, LEAD_FIELD.childName1, a.text, NoId) ELSE o1
        o3 == IF key \in DEFAULT_REFS.childDob
              THEN put(o2, LEAD_FIELD.childDob1, toAmoDateTime(a.date), NoId) ELSE o2
        o4 == IF key \in DEFAULT_REFS.desiredProgram
              THEN put(o3, LEAD_FIELD.desiredProgram, Undef,
                       mapDesiredProgramEnum(a.choice_label)) ELSE o3
    IN  IF key \in DEFAULT_REFS.currentEducation
        THEN put(o4, LEAD_FIELD.currentEducation, a.choice_label, NoId) ELSE o4

RECURSIVE PutStatic(_, _)
PutStatic(out, as) ==
    IF as = <<>> THEN out ELSE PutStatic(PutDefaultRefs(out, Head(as)), Tail(as))

\* map is the parsed TYPEFORM_FIELD_MAP: ref -> [entity, fieldId]
RECURSIVE PutDynamic(_, _, _)
PutDynamic(out, as, map) ==
    IF as = <<>> THEN out
    ELSE LET a == Head(as)
             key == AnswerKey(a)
         IN  IF key \notin DOMAIN map \/ map[key].entity # "lead"
             THEN PutDynamic(out, Tail(as), map)
             ELSE PutDynamic(put(out, map[key].fieldId, getAnswerString(a), NoId),
                             Tail(as), map)

buildLeadCustomFields(payload, map) ==
    PutDynamic(PutStatic(PutHidden(<<>>, payload.hidden), payload.answers),
               payload.answers, map)

\* TYPEFORM_FIELD_MAP of the deployment: the note answer feeds a lead field
TYPEFORM_FIELD_MAP ==
    [k \in {"ref_note"} |-> [entity |-> "lead", fieldId |-> 777001]]

(***************************************************************************)
(* Submission Ledger and Credential Store (db.ts).                         *)
(* The ledger is the table typeform_submissions as a function from the     *)
(* response tokens present (the UNIQUE key) to rows; updated_at is the     *)
(* reading of the database clock, which advances with every write.         *)
(***************************************************************************)
\* a lookup by token that finds nothing
getSubmissionByTokenMiss(l, responseToken) == <<>>

\* SELECT ... WHERE response_token = $1 LIMIT 1
getSubmissionByToken(l, responseToken) ==
    IF responseToken \in DOMAIN l THEN <<l[responseToken]>> ELSE <<>>

\* a lookup that takes the record written first
getOldestSubmissionByLandingId(l, formId, landingId) ==
    LET m == {k \in DOMAIN l : l[k].form_id = formId /\ l[k].landing_id = landingId}
    IN  IF m = {} THEN <<>>
        ELSE <<l[CHOOSE k \in m : \A o \in m : l[k].updated_at <= l[o].updated_at]>>

\* ORDER BY updated_at DESC LIMIT 1
getLatestSubmissionByLandingId(l, formId, landingId) ==
    LET m == {k \in DOMAIN l : l[k].form_id = formId /\ l[k].landing_id = landingId}
    IN  IF m = {} THEN <<>>
        ELSE <<l[CHOOSE k \in m : \A o \in m : l[o].updated_at <= l[k].updated_at]>>

\* an upsert that takes the new value of a column, null or not
Overwrite(new, old) == new

\* COALESCE(EXCLUDED.col, typeform_submissions.col) for a text column
Coalesce(new, old) == IF new # Null THEN new ELSE old
\* the same for a BIGINT column
OverwriteId(new, old) == new

\* a conflict resolution in which the stored id wins
KeepStoredId(new, old) == IF old # NoId THEN old ELSE new

\* the same for a BIGINT column
CoalesceId(new, old) == IF new # NoId THEN new ELSE old

\* new Date(submittedAt) keeps the instant the string names; the model keeps
\* the string
upsertSubmission(l, p, clock) ==
    LET ins == [form_id |-> p.formId,
                response_token |-> p.responseToken,
                landing_id |-> p.landingId,
                submitted_at |-> IF Truthy(p.submittedAt) THEN p.submittedAt ELSE Null,
                last_event_id |-> p.lastEventId,
                last_event_type |-> p.lastEventType,
                amo_lead_id |-> p.amoLeadId,
                amo_contact_id |-> p.amoContactId,
                last_payload |-> p.lastPayload,
                updated_at |-> clock]
    IN  IF p.responseToken \notin DOMAIN l
        THEN [k \in DOMAIN l \cup {p.responseToken} |->
                IF k = p.responseToken THEN ins ELSE l[k]]
        ELSE LET old == l[p.responseToken] IN
             [l EXCEPT ![p.responseToken] =
                [form_id |-> ins.form_id,
                 response_token |-> old.response_token,
                 landing_id |-> Coalesce(ins.landing_id, old.landing_id),
                 submitted_at |-> Coalesce(ins.submitted_at, old.submitted_at),
                 last_event_id |-> Coalesce(ins.last_event_id, old.last_event_id),
                 last_event_type |-> Coalesce(ins.last_event_type, old.last_event_type),
                 amo_lead_id |-> CoalesceId(ins.amo_lead_id, old.amo_lead_id),
                 amo_contact_id |-> CoalesceId(ins.amo_contact_id, old.amo_contact_id),
                 last_payload |-> ins.last_payload,
                 updated_at |-> clock]]

\* Credentials.  A token is a record: none, a statically configured one, or
\* one half of the n-th pair handed out by the token endpoint.
NoTok == [k |-> "none", n |-> 0]
StaticAccess == [k |-> "static_access", n |-> 0]
StaticRefresh == [k |-> "static_refresh", n |-> 0]
AccessOf(n) == [k |-> "access", n |-> n]
RefreshOf(n) == [k |-> "refresh", n |-> n]

kvGet(store, key) == store[key]
kvSet(store, key, value) == [store EXCEPT ![key] = value]

KV_ACCESS == "amocrm.access_token"
KV_REFRESH == "amocrm.refresh_token"

(***************************************************************************)
(* State.                                                                  *)
(***************************************************************************)
VARIABLES
    config,   \* AmoConfig: which settings are present (fixed at start)
    lim,      \* the bounds of the specification being run (fixed at start)
    kv,       \* kv_store
    ledger,   \* typeform_submissions
    now,      \* database clock: number of ledger writes so far
    crm,      \* the remote CRM: leads and contacts created, links, token pairs issued
    task,     \* per handler task: position and locals of the delivery in flight
    last,     \* the delivery completed most recently: its response and what it did
    delivered,\* the events received so far
    failed,   \* deliveries that ended in a failure outcome so far
    faults,   \* failing answers given so far
    nDeliv,   \* deliveries started so far
    lastUp,   \* SpecLedger: the last direct upsert (row before, parameters)
    mapper    \* SpecMapper: a payload and a field map, and the mapper's output

vars == <<config, lim, kv, ledger, now, crm, task, last, delivered, failed, faults,
          nDeliv, lastUp, mapper>>

TaskIds == {"A", "B"}

\* ledger0 is the ledger as it was when the delivery began
IdleTask ==
    [pc |-> "idle", ev |-> 0, n |-> 0, ledger0 |-> <<>>, existing |-> <<>>,
     existingLeadId |-> NoId, existingContactId |-> NoId,
     leadId |-> NoId, contactId |-> NoId,
     op |-> "none", retryOn401 |-> TRUE, token |-> NoTok, refreshToken |-> NoTok,
     pair |-> 0, calls |-> <<>>, ovl |-> FALSE]

\* no delivery has completed yet
NoEntry ==
    [task |-> "none", ev |-> 0, n |-> 0, outcome |-> "none", status |-> 0,
     leadId |-> NoId, contactId |-> NoId, error |-> "",
     found |-> FALSE, byToken |-> FALSE,
     existingLeadId |-> NoId, existingContactId |-> NoId,
     calls |-> <<>>, ovl |-> FALSE, ledgerUnchanged |-> TRUE]

AllConfigs ==
    [clientId : BOOLEAN, clientSecret : BOOLEAN, redirectUri : BOOLEAN,
     accessToken : BOOLEAN, refreshToken : BOOLEAN]

FullConfig ==
    [clientId |-> TRUE, clientSecret |-> TRUE, redirectUri |-> TRUE,
     accessToken |-> TRUE, refreshToken |-> TRUE]
StaticConfig ==
    [clientId |-> FALSE, clientSecret |-> FALSE, redirectUri |-> FALSE,
     accessToken |-> TRUE, refreshToken |-> FALSE]
EmptyConfig ==
    [clientId |-> FALSE, clientSecret |-> FALSE, redirectUri |-> FALSE,
     accessToken |-> FALSE, refreshToken |-> FALSE]
\* a refresh path and no access token
RefreshOnlyConfig ==
    [clientId |-> TRUE, clientSecret |-> TRUE, redirectUri |-> TRUE,
     accessToken |-> FALSE, refreshToken |-> TRUE]

Answers == {"ok", "noid", "unauthorized", "error"}

InitCommon ==
    /\ kv = [k \in {KV_ACCESS, KV_REFRESH} |-> NoTok]
    /\ ledger = <<>>
    /\ now = 0
    /\ crm = [leads |-> 0, contacts |-> 0, links |-> {}, pairs |-> 0]
    /\ task = [t \in TaskIds |-> IdleTask]
    /\ last = NoEntry
    /\ delivered = {}
    /\ failed = 0
    /\ faults = 0
    /\ nDeliv = 0
    /\ lastUp = <<>>

\* deliveries one after another
Init ==
    /\ InitCommon
    /\ mapper = <<>>
    /\ config \in {FullConfig, StaticConfig, EmptyConfig, RefreshOnlyConfig}
    /\ lim = [tasks |-> {"A"}, deliveries |-> MaxDeliveries, faults |-> MaxFaults,
              answers |-> Answers, events |-> {1, 2, 3, 4, 5, 6}, upserts |-> 0]

(***************************************************************************)
(* CRM client (amocrm.ts) and webhook handler (index.ts).                  *)
(***************************************************************************)
Active(t) == task[t].pc # "idle"

EventOf(st) == Events[st.ev]

\* index.ts 74-76: data derived from the payload
ContactOf(st) == extractContactBits(EventOf(st))
LeadCustomFieldsOf(st) == buildLeadCustomFields(EventOf(st), TYPEFORM_FIELD_MAP)

\* a refresh that asks only for the client id
hasClientId(c) == c.clientId

hasOAuth(c) == c.clientId /\ c.clientSecret /\ c.redirectUri

hasContactBits(contact) ==
    TruthyText(contact.email) \/ TruthyText(contact.phone) \/ TruthyText(contact.name)

\* amocrm.ts buildContactCustomFields: the field ids set, phone first
buildContactCustomFields(contact) ==
    (IF TruthyText(contact.phone) THEN <<214683>> ELSE <<>>)
        \o (IF TruthyText(contact.email) THEN <<214685>> ELSE <<>>)

\* a reconciliation that writes the note before it links and sets the fields
OpOrderNoteEarly ==
    <<"createLead", "createContact", "updateContact", "addLeadNote",
      "linkLeadToContact", "updateLeadCustomFields">>

\* The remote operations of createOrUpdateByTypeform in program order.
OpOrder ==
    <<"createLead", "createContact", "updateContact", "linkLeadToContact",
      "updateLeadCustomFields", "addLeadNote">>

OpIndex(op) == CHOOSE i \in 1..Len(OpOrder) : OpOrder[i] = op

\* a reconciliation that ignores the ids of the record found
OpRunsFresh(st, op) ==
    CASE op = "createLead" -> TRUE
      [] op = "createContact" -> hasContactBits(ContactOf(st))
      [] op = "updateContact" -> FALSE
      [] op = "linkLeadToContact" -> HasId(st.contactId)
      [] op = "updateLeadCustomFields" -> Len(LeadCustomFieldsOf(st)) > 0
      [] op = "addLeadNote" -> TRUE

\* a reconciliation that writes a note only for a lead it created
OpRunsNoteOnCreate(st, op) ==
    CASE op = "createLead" -> ~HasId(st.existingLeadId)
      [] op = "createContact" ->
            ~HasId(st.contactId) /\ hasContactBits(ContactOf(st))
      [] op = "updateContact" ->
            /\ HasId(st.existingLeadId)
            /\ HasId(st.contactId) /\ hasContactBits(ContactOf(st))
      [] op = "linkLeadToContact" -> HasId(st.contactId)
      [] op = "updateLeadCustomFields" -> Len(LeadCustomFieldsOf(st)) > 0
      [] op = "addLeadNote" -> ~HasId(st.existingLeadId)

\* Whether createOrUpdateByTypeform, at the place of operation op and with the
\* locals of st, sends a request for it.
OpRuns(st, op) ==
    LET contact == ContactOf(st)
        isNewLead == ~HasId(st.existingLeadId)
    IN  CASE op = "createLead" -> ~HasId(st.existingLeadId)
          [] op = "createContact" ->
                IF isNewLead THEN hasContactBits(contact)
                ELSE ~HasId(st.contactId) /\ hasContactBits(contact)
          [] op = "updateContact" ->
                /\ ~isNewLead
                /\ HasId(st.contactId) /\ hasContactBits(contact)
                /\ (TruthyText(contact.name) \/ Len(buildContactCustomFields(contact)) > 0)
          [] op = "linkLeadToContact" -> HasId(st.contactId)
          [] op = "updateLeadCustomFields" -> Len(LeadCustomFieldsOf(st)) > 0
          [] op = "addLeadNote" -> TRUE

\* The first operation at or after place i that sends a request, or "return".
RECURSIVE NextOp(_, _)
NextOp(st, i) ==
    IF i > Len(OpOrder) THEN "return"
    ELSE IF OpRuns(st, OpOrder[i]) THEN OpOrder[i]
    ELSE NextOp(st, i + 1)

\* Continue createOrUpdateByTypeform from place i: up to the next await.
Continue(st, i) ==
    LET op == NextOp(st, i) IN
    IF op = "return"
    THEN [st EXCEPT !.pc = "upsert", !.op = "none"]
    ELSE [st EXCEPT !.pc = "getToken", !.op = op, !.retryOn401 = TRUE]

\* a replay that may itself be replayed
ReplayRetrying(st) == [st EXCEPT !.pc = "getToken"]

\* amoFetch 236: the request is sent again, once
Replay(st) == [st EXCEPT !.pc = "getToken", !.retryOn401 = FALSE]

\* a handler that never short-circuits
DedupOff(existing, payload) == FALSE

\* index.ts 61: the dedup test
IsDuplicate(existing, payload) ==
    /\ existing # <<>>
    /\ Truthy(payload.event_id)
    /\ existing[1].last_event_id = payload.event_id

\* a handler that writes the outcome to the record it found
UpsertParamsOfFound(st) ==
    LET e == EventOf(st) IN
    [formId |-> e.form_id,
     responseToken |-> IF st.existing # <<>> THEN st.existing[1].response_token
                       ELSE e.token,
     landingId |-> e.landing_id,
     submittedAt |-> e.submitted_at, lastEventId |-> e.event_id,
     lastEventType |-> e.event_type, amoLeadId |-> st.leadId,
     amoContactId |-> st.contactId, lastPayload |-> st.ev]

\* index.ts 87-98: what the handler hands to upsertSubmission
UpsertParams(st) ==
    LET e == EventOf(st) IN
    [formId |-> e.form_id, responseToken |-> e.token, landingId |-> e.landing_id,
     submittedAt |-> e.submitted_at, lastEventId |-> e.event_id,
     lastEventType |-> e.event_type, amoLeadId |-> st.leadId,
     amoContactId |-> st.contactId, lastPayload |-> st.ev]

\* The record of a completed delivery: its response and what it did.
Entry(t, st, outcome, status, leadId, contactId, error) ==
    [task |-> t, ev |-> st.ev, n |-> st.n, outcome |-> outcome, status |-> status,
     leadId |-> leadId, contactId |-> contactId, error |-> error,
     found |-> st.existing # <<>>,
     byToken |-> st.existing # <<>> /\ st.existing[1].response_token = EventOf(st).token,
     existingLeadId |-> st.existingLeadId, existingContactId |-> st.existingContactId,
     calls |-> st.calls, ovl |-> st.ovl, ledgerUnchanged |-> ledger' = st.ledger0]

\* res.status(...).json(...): the delivery ends
Respond(t, st, outcome, status, leadId, contactId, error) ==
    /\ task' = [task EXCEPT ![t] = IdleTask]
    /\ last' = Entry(t, st, outcome, status, leadId, contactId, error)
    /\ failed' = IF outcome = "failed" THEN failed + 1 ELSE failed

\* a catch block that saves the ids obtained so far before answering 500
FailSaving(t, st, error) ==
    /\ now' = now + 1
    /\ ledger' = upsertSubmission(ledger, UpsertParams(st), now')
    /\ Respond(t, st, "failed", 500, NoId, NoId, error)

\* index.ts 111-120: any throw ends the delivery with 500
Fail(t, st, error) ==
    /\ UNCHANGED <<ledger, now>>
    /\ Respond(t, st, "failed", 500, NoId, NoId, error)

\* the delivery goes on
Goes == UNCHANGED <<last, failed, ledger, now>>

\* a validation that forgets the form id
InvalidPayloadTokenOnly(payload) == ~Truthy(payload.token)

\* index.ts 41: !responseToken || !formId
InvalidPayload(payload) == ~Truthy(payload.token) \/ ~Truthy(payload.form_id)

\* index.ts 37-55: a delivery arrives; the payload is validated and the lookup
\* by token is issued
Receive(t, e) ==
    LET payload == Events[e]
        st == [IdleTask EXCEPT !.ev = e, !.n = nDeliv + 1, !.ledger0 = ledger,
                               !.ovl = \E u \in TaskIds \ {t} : Active(u)]
    IN  /\ t \in lim.tasks
        /\ ~Active(t)
        \* tasks are interchangeable: B takes a delivery only while A is busy
        /\ t = "B" => Active("A")
        /\ nDeliv < lim.deliveries
        /\ e \in lim.events
        /\ nDeliv' = nDeliv + 1
        /\ delivered' = delivered \cup {e}
        /\ IF InvalidPayload(payload)
           THEN /\ UNCHANGED <<failed, ledger, now>>
                /\ last' = Entry(t, st, "rejected", 400, NoId, NoId, "Invalid payload")
                /\ task' = task
           ELSE /\ task' = [u \in TaskIds |->
                              IF u = t THEN [st EXCEPT !.pc = "lookupToken"]
                              ELSE IF Active(u) THEN [task[u] EXCEPT !.ovl = TRUE]
                              ELSE task[u]]
                /\ Goes
        /\ UNCHANGED <<config, lim, kv, crm, faults, lastUp, mapper>>

\* index.ts 61-85: with the prior record in hand, short-circuit a duplicate or
\* enter createOrUpdateByTypeform up to its first await
Decide(t, st0, existing) ==
    LET payload == EventOf(st0)
        found == existing # <<>>
        exLead == IF found THEN existing[1].amo_lead_id ELSE NoId
        exContact == IF found THEN existing[1].amo_contact_id ELSE NoId
        st == [st0 EXCEPT !.existing = existing,
                          !.existingLeadId = exLead,
                          !.existingContactId = exContact,
                          !.leadId = exLead,
                          !.contactId = IF HasId(exLead) THEN exContact ELSE NoId]
    IN  IF IsDuplicate(existing, payload)
        THEN /\ UNCHANGED <<ledger, now>>
             /\ Respond(t, st, "duplicate", 200, exLead, NoId, "")
        ELSE /\ task' = [task EXCEPT ![t] = Continue(st, 1)]
             /\ Goes

\* index.ts 55: getSubmissionByToken answers
LookupToken(t) ==
    LET st == task[t]
        payload == EventOf(st)
        existingByToken == getSubmissionByToken(ledger, payload.token)
    IN  /\ st.pc = "lookupToken"
        /\ IF existingByToken = <<>> /\ Truthy(payload.landing_id)
           THEN /\ task' = [task EXCEPT ![t].pc = "lookupLanding"]
                /\ Goes
           ELSE Decide(t, st, existingByToken)
        /\ UNCHANGED <<config, lim, kv, crm, delivered, faults, nDeliv, lastUp, mapper>>

\* index.ts 59: getLatestSubmissionByLandingId answers
LookupLanding(t) ==
    LET st == task[t]
        payload == EventOf(st)
    IN  /\ st.pc = "lookupLanding"
        /\ Decide(t, st, getLatestSubmissionByLandingId(ledger, payload.form_id,
                                                        payload.landing_id))
        /\ UNCHANGED <<config, lim, kv, crm, delivered, faults, nDeliv, lastUp, mapper>>

\* a token read that prefers the configured token to the stored one
getAccessTokenStatic(store, c) ==
    IF c.accessToken THEN StaticAccess
    ELSE IF kvGet(store, KV_ACCESS) # NoTok THEN kvGet(store, KV_ACCESS)
    ELSE NoTok

\* a token read without the fallback to the configured token
getAccessTokenStored(store, c) == kvGet(store, KV_ACCESS)

\* amocrm.ts getAccessToken
getAccessToken(store, c) ==
    IF kvGet(store, KV_ACCESS) # NoTok THEN kvGet(store, KV_ACCESS)
    ELSE IF c.accessToken THEN StaticAccess
    ELSE NoTok

\* amoFetch 224: the access token is read; none is a configuration error
GetToken(t) ==
    LET st == task[t]
        token == getAccessToken(kv, config)
    IN  /\ st.pc = "getToken"
        /\ IF token = NoTok
           THEN Fail(t, st, "No amoCRM access token")
           ELSE /\ task' = [task EXCEPT ![t] = [st EXCEPT !.pc = "fetch", !.token = token]]
                /\ Goes
        /\ UNCHANGED <<config, lim, kv, crm, delivered, faults, nDeliv, lastUp, mapper>>

\* The CRM applies a request it answers 2xx.
Remote(c, st) ==
    CASE st.op = "createLead" -> [c EXCEPT !.leads = @ + 1]
      [] st.op = "createContact" -> [c EXCEPT !.contacts = @ + 1]
      [] st.op = "linkLeadToContact" ->
            [c EXCEPT !.links = @ \cup {<<st.leadId, st.contactId>>}]
      [] OTHER -> c

\* The operation's result is taken into the locals.
Returned(c, st) ==
    CASE st.op = "createLead" -> [st EXCEPT !.leadId = c.leads]
      [] st.op = "createContact" -> [st EXCEPT !.contactId = c.contacts]
      [] OTHER -> st

\* a fetch layer that replays after any non-2xx answer
ShouldReplayAnyFailure(answer, retryOn401) ==
    answer \in {"unauthorized", "error"} /\ retryOn401

\* amoFetch 234: res.status === 401 && retryOn401
ShouldReplay(answer, retryOn401) == answer = "unauthorized" /\ retryOn401

\* One line of the log of requests sent: to the CRM object API (op names the
\* operation) or to the token endpoint (op is "refresh", for names the
\* operation whose 401 caused it, pair the token pair handed out).
Request(st, op, token, answer, pair) ==
    [op |-> op, for |-> st.op, leadId |-> st.leadId, contactId |-> st.contactId,
     token |-> token, retryOn401 |-> st.retryOn401, answer |-> answer, pair |-> pair]

\* amoFetch 225-239 and the operation's handling of the answer.  answer is what
\* the CRM says: "ok" (2xx with the created id, if any), "noid" (2xx whose body
\* names no created id), "unauthorized" (401) or "error" (another non-2xx).
Fetch(t, answer) ==
    LET st == [task[t] EXCEPT !.calls =
                  Append(@, Request(task[t], task[t].op, task[t].token, answer, 0))]
    IN  /\ task[t].pc = "fetch"
        /\ answer \in lim.answers
        /\ answer = "noid" => st.op \in {"createLead", "createContact"}
        /\ answer # "ok" => faults < lim.faults
        /\ faults' = IF answer = "ok" THEN faults ELSE faults + 1
        /\ CASE ShouldReplay(answer, st.retryOn401) ->
                  \* maybeRefresh 192-193, or straight to the replay
                  /\ task' = [task EXCEPT ![t] =
                        IF hasOAuth(config) THEN [st EXCEPT !.pc = "refreshRead"]
                        ELSE Replay(st)]
                  /\ Goes
                  /\ crm' = crm
             [] ~ShouldReplay(answer, st.retryOn401) /\ answer = "unauthorized" ->
                  Fail(t, st, "401") /\ crm' = crm
             [] ~ShouldReplay(answer, st.retryOn401) /\ answer = "error" ->
                  Fail(t, st, "non-2xx") /\ crm' = crm
             [] answer = "noid" ->
                  Fail(t, st, "no created id") /\ crm' = crm
             [] answer = "ok" ->
                  /\ crm' = Remote(crm, st)
                  /\ task' = [task EXCEPT ![t] =
                        Continue(Returned(crm', st), OpIndex(st.op) + 1)]
                  /\ Goes
        /\ UNCHANGED <<config, lim, kv, delivered, nDeliv, lastUp, mapper>>

\* maybeRefresh 195-196: the refresh token is read
RefreshRead(t) ==
    LET st == task[t]
        fromDb == kvGet(kv, KV_REFRESH)
        refreshToken == IF fromDb # NoTok THEN fromDb
                        ELSE IF config.refreshToken THEN StaticRefresh ELSE NoTok
    IN  /\ st.pc = "refreshRead"
        /\ task' = [task EXCEPT ![t] =
              IF refreshToken = NoTok THEN Replay(st)
              ELSE [st EXCEPT !.pc = "refreshFetch", !.refreshToken = refreshToken]]
        /\ Goes
        /\ UNCHANGED <<config, lim, kv, crm, delivered, faults, nDeliv, lastUp, mapper>>

\* a refresh whose failure is swallowed: the request is replayed all the same
RefreshFetchSwallowing(t, ok) ==
    LET pair == IF ok THEN crm.pairs + 1 ELSE 0
        st == [task[t] EXCEPT !.calls =
                  Append(@, Request(task[t], "refresh", task[t].refreshToken,
                                    IF ok THEN "ok" ELSE "error", pair))]
    IN  /\ task[t].pc = "refreshFetch"
        /\ ~ok => faults < lim.faults
        /\ faults' = IF ok THEN faults ELSE faults + 1
        /\ IF ok
           THEN /\ crm' = [crm EXCEPT !.pairs = pair]
                /\ task' = [task EXCEPT ![t] =
                      [st EXCEPT !.pc = "setAccess", !.pair = pair]]
           ELSE /\ crm' = crm
                /\ task' = [task EXCEPT ![t] = Replay(st)]
        /\ Goes
        /\ UNCHANGED <<config, lim, kv, delivered, nDeliv, lastUp, mapper>>

\* maybeRefresh 199-216: the token endpoint answers
RefreshFetch(t, ok) ==
    LET pair == IF ok THEN crm.pairs + 1 ELSE 0
        st == [task[t] EXCEPT !.calls =
                  Append(@, Request(task[t], "refresh", task[t].refreshToken,
                                    IF ok THEN "ok" ELSE "error", pair))]
    IN  /\ task[t].pc = "refreshFetch"
        /\ ~ok => faults < lim.faults
        /\ faults' = IF ok THEN faults ELSE faults + 1
        /\ IF ok
           THEN /\ crm' = [crm EXCEPT !.pairs = pair]
                /\ task' = [task EXCEPT ![t] =
                      [st EXCEPT !.pc = "setAccess", !.pair = pair]]
                /\ Goes
           ELSE /\ crm' = crm
                /\ Fail(t, st, "amoCRM refresh failed")
        /\ UNCHANGED <<config, lim, kv, delivered, nDeliv, lastUp, mapper>>

\* maybeRefresh 217
SetAccess(t) ==
    /\ task[t].pc = "setAccess"
    /\ kv' = kvSet(kv, KV_ACCESS, AccessOf(task[t].pair))
    /\ task' = [task EXCEPT ![t].pc = "setRefresh"]
    /\ Goes
    /\ UNCHANGED <<config, lim, crm, delivered, faults, nDeliv, lastUp, mapper>>

\* maybeRefresh 218, then amoFetch 236: the replay
SetRefresh(t) ==
    /\ task[t].pc = "setRefresh"
    /\ kv' = kvSet(kv, KV_REFRESH, RefreshOf(task[t].pair))
    /\ task' = [task EXCEPT ![t] = Replay(task[t])]
    /\ Goes
    /\ UNCHANGED <<config, lim, crm, delivered, faults, nDeliv, lastUp, mapper>>

\* index.ts 87-110: the outcome is written to the ledger and returned
Upsert(t) ==
    LET st == task[t] IN
    /\ st.pc = "upsert"
    /\ now' = now + 1
    /\ ledger' = upsertSubmission(ledger, UpsertParams(st), now')
    /\ Respond(t, st, "processed", 200, st.leadId, st.contactId, "")
    /\ UNCHANGED <<config, lim, kv, crm, delivered, faults, nDeliv, lastUp, mapper>>

Next ==
    \/ \E t \in TaskIds, e \in EventIds : Receive(t, e)
    \/ \E t \in TaskIds : LookupToken(t)
    \/ \E t \in TaskIds : LookupLanding(t)
    \/ \E t \in TaskIds : GetToken(t)
    \/ \E t \in TaskIds, answer \in Answers : Fetch(t, answer)
    \/ \E t \in TaskIds : RefreshRead(t)
    \/ \E t \in TaskIds, ok \in BOOLEAN : RefreshFetch(t, ok)
    \/ \E t \in TaskIds : SetAccess(t)
    \/ \E t \in TaskIds : SetRefresh(t)
    \/ \E t \in TaskIds : Upsert(t)

Spec == Init /\ [][Next]_vars

\* deliveries by two tasks, interleaved at every await
InitConc ==
    /\ InitCommon
    /\ mapper = <<>>
    /\ config \in {FullConfig, StaticConfig}
    /\ lim = [tasks |-> TaskIds, deliveries |-> MaxConcDeliveries,
              faults |-> MaxConcFaults,
              answers |-> {"ok", "unauthorized", "error"}, events |-> {1, 2, 3, 4},
              upserts |-> 0]

SpecConc == InitConc /\ [][Next]_vars

\* two tasks with OAuth configured, each of which may meet a 401 and refresh
InitRefresh ==
    /\ InitCommon
    /\ mapper = <<>>
    /\ config = FullConfig
    /\ lim = [tasks |-> TaskIds, deliveries |-> MaxRefreshDeliveries,
              faults |-> MaxRefreshFaults,
              answers |-> {"ok", "unauthorized"}, events |-> {1},
              upserts |-> 0]

SpecRefresh == InitRefresh /\ [][Next]_vars

\* responses made on one landing page, delivered one after another; the
\* environment may reuse an event id under another response token
InitLanding ==
    /\ InitCommon
    /\ mapper = <<>>
    /\ config = FullConfig
    /\ lim = [tasks |-> {"A"}, deliveries |-> MaxLandingDeliveries,
              faults |-> MaxLandingFaults,
              answers |-> {"ok", "unauthorized"}, events |-> {1, 2, 4, 7},
              upserts |-> 0]

SpecLanding == InitLanding /\ [][Next]_vars

\* one delivery under every configuration of the CRM client
InitAuth ==
    /\ InitCommon
    /\ mapper = <<>>
    /\ config \in AllConfigs
    /\ lim = [tasks |-> {"A"}, deliveries |-> MaxAuthDeliveries,
              faults |-> MaxAuthFaults,
              answers |-> {"ok", "unauthorized", "error"}, events |-> {1, 2},
              upserts |-> 0]

SpecAuth == InitAuth /\ [][Next]_vars

(***************************************************************************)
(* The Ledger on its own: upsertSubmission called with any parameters its  *)
(* signature allows.  The k-th call supplies values stamped k, so that a   *)
(* supplied value always differs from the stored one.                      *)
(***************************************************************************)
Stamp(prefix, k) == prefix \o ToString(k)

UpsertInputs(k) ==
    [formId : {Stamp("f", k)},
     responseToken : {"t1", "t2"},
     landingId : {Null, Stamp("L", k)},
     submittedAt : {Null, "", Stamp("2024-01-0", k)},
     lastEventId : {Null, Stamp("e", k)},
     lastEventType : {Null, Stamp("type", k)},
     amoLeadId : {NoId, 500 + k},
     amoContactId : {NoId, 700 + k},
     lastPayload : {k}]

DirectUpsert(p) ==
    /\ now < lim.upserts
    /\ now' = now + 1
    /\ ledger' = upsertSubmission(ledger, p, now')
    /\ lastUp' = <<[prev |-> getSubmissionByToken(ledger, p.responseToken), params |-> p]>>
    /\ UNCHANGED <<config, lim, kv, crm, task, last, delivered, failed, faults, nDeliv,
                   mapper>>

NextLedger == \E p \in UpsertInputs(now + 1) : DirectUpsert(p)

InitLedger ==
    /\ InitCommon
    /\ mapper = <<>>
    /\ config = EmptyConfig
    /\ lim = [tasks |-> {}, deliveries |-> 0, faults |-> 0, answers |-> {},
              events |-> {}, upserts |-> MaxUpserts]

SpecLedger == InitLedger /\ [][NextLedger]_vars

(***************************************************************************)
(* The field mapper on its own: buildLeadCustomFields applied to payloads  *)
(* whose hidden parameters and answers hit the three rule groups, under    *)
(* several TYPEFORM_FIELD_MAP tables.                                      *)
(***************************************************************************)
FullNameRef == "fd704be3-ad3e-4290-b60d-7f975b55ae84"
ChildDobRef == "d35af5e7-1255-485c-a445-d49d2c682fd2"
DesiredProgramRef == "f1da7df1-b0b0-4fc7-8cd4-0bf95cfdcd2b"

MapperAnswers ==
    {[Answer("text", FullNameRef) EXCEPT !.text = <<" ", "J", "o", " ">>],
     [Answer("text", FullNameRef) EXCEPT !.text = <<" ", " ">>],
     [Answer("text", "ref_note") EXCEPT !.text = <<"x", " ">>],
     [Answer("text", "ref_note") EXCEPT !.text = <<" ">>],
     [Answer("number", "ref_note") EXCEPT !.number = 0],
     [Answer("date", ChildDobRef) EXCEPT !.date = <<"2", "0", "1", "5", "-", "0", "1", "-", "0", "2">>],
     [Answer("choice", DesiredProgramRef) EXCEPT !.choice_label = <<" ", "P", "Y", "P", " ", "1">>],
     [Answer("choice", DesiredProgramRef) EXCEPT !.choice_label = <<"O", "t", "h", "e", "r">>]}

MapperHiddens ==
    {<<>>,
     <<[k |-> "utm_source", v |-> <<" ", "a", "d", "s">>]>>,
     <<[k |-> "utm_source", v |-> <<" ", " ">>]>>,
     <<[k |-> "utm_medium", v |-> <<"c", "p", "c">>],
       [k |-> "utm_source", v |-> <<"a", "d", "s">>]>>,
     <<[k |-> "email", v |-> <<"a", "@", "b">>]>>}

\* the deployment's table; the note answer aimed at the utm_source field, at
\* the full-name field, at the desired-program field; a contact mapping
MapperMaps ==
    {TYPEFORM_FIELD_MAP,
     [k \in {"ref_note"} |-> [entity |-> "lead", fieldId |-> HIDDEN_TO_LEAD_FIELD_ID["utm_source"]]],
     [k \in {"ref_note"} |-> [entity |-> "lead", fieldId |-> LEAD_FIELD.fullName]],
     [k \in {"ref_note"} |-> [entity |-> "lead", fieldId |-> LEAD_FIELD.desiredProgram]],
     [k \in {"ref_note"} |-> [entity |-> "contact", fieldId |-> 777001]]}

MapperPayloads ==
    {Payload("e", "form_response", "f1", "t1", Null, Null, h, as) :
        h \in MapperHiddens,
        as \in UNION {[1..n -> MapperAnswers] : n \in 0..MaxAnswers}}

\* index.ts 76: the mapper is applied
Map ==
    /\ mapper # <<>>
    /\ ~mapper[1].done
    /\ mapper' = <<[mapper[1] EXCEPT
                      !.out = buildLeadCustomFields(mapper[1].payload, mapper[1].map),
                      !.done = TRUE]>>
    /\ UNCHANGED <<config, lim, kv, ledger, now, crm, task, last, delivered, failed,
                   faults, nDeliv, lastUp>>

InitMapper ==
    /\ InitCommon
    /\ config = EmptyConfig
    /\ lim = [tasks |-> {}, deliveries |-> 0, faults |-> 0, answers |-> {},
              events |-> {}, upserts |-> 0]
    /\ mapper \in {<<[payload |-> p, map |-> m, out |-> <<>>, done |-> FALSE]>> :
                      p \in MapperPayloads, m \in MapperMaps}

SpecMapper == InitMapper /\ [][Map]_vars

(***************************************************************************)
(* Properties.                                                             *)
(***************************************************************************)
\* the handler accepts the event (index.ts 41)
WellFormed(e) == Truthy(Events[e].token) /\ Truthy(Events[e].form_id)

\* every delivery so far was of event e, no remote call failed and no
\* delivery ended in failure
OnlyCleanDeliveriesOf(e) ==
    /\ WellFormed(e)
    /\ delivered = {e}
    /\ faults = 0
    /\ failed = 0

\* C1: delivering the identical event (same token, same non-empty event id)
\* one or more times in sequence, every remote call succeeding, creates
\* exactly one lead and at most one contact, and every delivery after the
\* first sends no request to the CRM and answers with the first one's lead id.
IdempotentRedelivery ==
    \A e \in EventIds :
        (OnlyCleanDeliveriesOf(e) /\ Truthy(Events[e].event_id)) =>
            /\ crm.leads <= 1
            /\ crm.contacts <= 1
            /\ last.n >= 1 => crm.leads = 1
            /\ last.n >= 2 =>
                  /\ last.outcome = "duplicate"
                  /\ last.calls = <<>>
                  /\ last.leadId = 1
            /\ \A t \in TaskIds :
                  task[t].n >= 2 => task[t].calls = <<>> /\ task[t].pc = "lookupToken"

\* C1 happens: the third delivery of event 1 has been answered as a duplicate,
\* one lead and one contact exist
IdempotentRedeliveryWitness ==
    /\ OnlyCleanDeliveriesOf(1)
    /\ last.n = 3
    /\ last.outcome = "duplicate"
    /\ crm.leads = 1
    /\ crm.contacts = 1

\* C2: over any sequence of failed and successful deliveries of one event, at
\* most one lead and at most one contact are ever created.
ConvergesAfterPartialFailure ==
    \A e \in EventIds :
        (WellFormed(e) /\ delivered = {e}) => crm.leads <= 1 /\ crm.contacts <= 1

\* C3: a delivery classified as duplicate returns the lead id and the contact
\* id stored in the record found.
DuplicateReturnsStoredIds ==
    last.outcome = "duplicate" =>
        /\ last.leadId = last.existingLeadId
        /\ last.contactId = last.existingContactId

\* a request whose answer makes the operation throw
Fatal(call) ==
    IF call.op = "refresh" THEN call.answer = "error"
    ELSE \/ call.answer \in {"error", "noid"}
         \/ call.answer = "unauthorized" /\ ~call.retryOn401

\* C4: when a step of a delivery's reconciliation fails (no access token, a
\* failed refresh, a second 401, any other non-2xx answer), the delivery ends
\* in the failure outcome (500), and the ledger is then exactly as it was when
\* the delivery began.
ErrorIsolation ==
    /\ (\E i \in DOMAIN last.calls : Fatal(last.calls[i])) => last.outcome = "failed"
    /\ last.outcome = "failed" =>
          /\ last.status = 500
          /\ last.leadId = NoId /\ last.contactId = NoId
          /\ last.ledgerUnchanged

\* C4 happens: with a record in the ledger, a delivery that had already created
\* a contact failed on a later request
ErrorIsolationWitness ==
    /\ last.outcome = "failed"
    /\ ledger # <<>>
    /\ \E i, j \in DOMAIN last.calls :
          /\ i < j
          /\ last.calls[i].op = "createContact" /\ last.calls[i].answer = "ok"
          /\ Fatal(last.calls[j])
    /\ last.ledgerUnchanged

\* the row before the last upsert (if there was one), its parameters, the row after
PrevRow == lastUp[1].prev
Params == lastUp[1].params
Row == ledger[Params.responseToken]

\* C5: an upsert on the token of an existing record keeps the previous value
\* of each optional field (landing_id, submitted_at, last_event_id,
\* last_event_type, amo_lead_id, amo_contact_id) the upsert omits and stores
\* the new value of each it supplies; form_id and last_payload always take the
\* upsert's value.  An empty submittedAt counts as omitted: it names no time.
MergeNeverErases ==
    lastUp # <<>> =>
        /\ Row.form_id = Params.formId
        /\ Row.last_payload = Params.lastPayload
        /\ PrevRow # <<>> =>
              /\ Row.landing_id =
                    IF Params.landingId = Null THEN PrevRow[1].landing_id
                    ELSE Params.landingId
              /\ Row.submitted_at =
                    IF Params.submittedAt \in {Null, ""} THEN PrevRow[1].submitted_at
                    ELSE Params.submittedAt
              /\ Row.last_event_id =
                    IF Params.lastEventId = Null THEN PrevRow[1].last_event_id
                    ELSE Params.lastEventId
              /\ Row.last_event_type =
                    IF Params.lastEventType = Null THEN PrevRow[1].last_event_type
                    ELSE Params.lastEventType
              /\ Row.amo_lead_id =
                    IF Params.amoLeadId = NoId THEN PrevRow[1].amo_lead_id
                    ELSE Params.amoLeadId
              /\ Row.amo_contact_id =
                    IF Params.amoContactId = NoId THEN PrevRow[1].amo_contact_id
                    ELSE Params.amoContactId

\* C5 happens: an upsert on an existing record omitted a landing id that was
\* stored and supplied an event id where another was stored
MergeNeverErasesWitness ==
    /\ lastUp # <<>>
    /\ PrevRow # <<>>
    /\ PrevRow[1].landing_id # Null /\ Params.landingId = Null
    /\ Row.landing_id = PrevRow[1].landing_id
    /\ PrevRow[1].last_event_id # Null /\ Params.lastEventId # Null
    /\ Row.last_event_id # PrevRow[1].last_event_id

\* C6: no record ever leaves the ledger, and a record whose amo_lead_id is
\* non-null has a non-null amo_lead_id after every step.
LeadIdNeverRegresses ==
    [][\A k \in DOMAIN ledger :
          /\ k \in DOMAIN ledger'
          /\ ledger[k].amo_lead_id # NoId => ledger'[k].amo_lead_id # NoId
      ]_vars

\* C6 happens: a record with a lead id was upserted without one and has kept it
LeadIdNeverRegressesWitness ==
    /\ lastUp # <<>>
    /\ PrevRow # <<>>
    /\ PrevRow[1].amo_lead_id # NoId
    /\ Params.amoLeadId = NoId
    /\ Row.amo_lead_id = PrevRow[1].amo_lead_id
    /\ Row.amo_contact_id # PrevRow[1].amo_contact_id

\* the operations a delivery asked for, in order: one per first attempt
RECURSIVE Ops(_)
Ops(calls) ==
    IF calls = <<>> THEN <<>>
    ELSE IF Head(calls).op # "refresh" /\ Head(calls).retryOn401
         THEN <<Head(calls).op>> \o Ops(Tail(calls))
         ELSE Ops(Tail(calls))

IsPrefix(s, t) == Len(s) <= Len(t) /\ SubSeq(t, 1, Len(s)) = s

\* the delivery found no lead to reuse and its event names a contact
NewLeadWithContact(entry) ==
    /\ entry.outcome \in {"processed", "failed"}
    /\ entry.existingLeadId = NoId
    /\ hasContactBits(extractContactBits(Events[entry.ev]))

ExpectedNewLeadOps(e) ==
    <<"createLead", "createContact", "linkLeadToContact">>
        \o (IF Len(buildLeadCustomFields(Events[e], TYPEFORM_FIELD_MAP)) > 0
            THEN <<"updateLeadCustomFields">> ELSE <<>>)
        \o <<"addLeadNote">>

\* C7: for an event with no prior lead and a contact field present, the
\* operations are called in the order create-lead, create-contact, link,
\* custom-field update (only when the mapped field set is non-empty),
\* add-note: a processed delivery called exactly these and its final request
\* was for the note; a failed one called a prefix of them.
CreateThenLinkOrder ==
    NewLeadWithContact(last) =>
        /\ IsPrefix(Ops(last.calls), ExpectedNewLeadOps(last.ev))
        /\ last.outcome = "processed" =>
              /\ Ops(last.calls) = ExpectedNewLeadOps(last.ev)
              /\ last.calls[Len(last.calls)].op = "addLeadNote"

\* C7 happens: a new lead with a contact was processed, with a field update
CreateThenLinkOrderWitness ==
    /\ NewLeadWithContact(last)
    /\ last.outcome = "processed"
    /\ Len(Ops(last.calls)) = 5

\* the delivery found, by its token, a record with a lead and no contact, and
\* its event carries an email
UpdatePathWithEmail(entry) ==
    /\ entry.outcome = "processed"
    /\ entry.byToken
    /\ entry.existingLeadId # NoId
    /\ entry.existingContactId = NoId
    /\ TruthyText(extractContactBits(Events[entry.ev]).email)

\* C8: given a record with lead id L and no contact id, a new event for the
\* same token that carries an email causes exactly one contact-create call, no
\* lead-create call, one link of the created contact to lead L, and L is the
\* lead id returned and persisted.
UpdatePathReusesIds ==
    UpdatePathWithEmail(last) =>
        LET IsCreateLead(c) == c.op = "createLead"
            IsCreateContact(c) == c.op = "createContact" /\ c.retryOn401
            IsLink(c) == c.op = "linkLeadToContact" /\ c.retryOn401
            links == SelectSeq(last.calls, IsLink)
        IN  /\ SelectSeq(last.calls, IsCreateLead) = <<>>
            /\ Len(SelectSeq(last.calls, IsCreateContact)) = 1
            /\ Len(links) = 1
            /\ links[1].leadId = last.existingLeadId
            /\ links[1].contactId = last.contactId
            /\ last.contactId # NoId
            /\ <<last.existingLeadId, last.contactId>> \in crm.links
            /\ last.leadId = last.existingLeadId
            /\ ledger[Events[last.ev].token].amo_lead_id = last.existingLeadId

\* C8 happens: event 2 left a lead without a contact under token t1, then event
\* 1 for the same token brought an email
UpdatePathReusesIdsWitness ==
    /\ UpdatePathWithEmail(last)
    /\ last.ev = 1
    /\ crm.leads = 1
    /\ crm.contacts = 1

\* the requests of a log sent for operation op, and the refreshes made for it
RequestsFor(calls, op) == {i \in DOMAIN calls : calls[i].op = op}
RefreshesFor(calls, op) == {i \in DOMAIN calls : calls[i].op = "refresh" /\ calls[i].for = op}

\* at place i of the log: a request answered 401, then a refresh that
\* succeeded, then the request again answered 2xx
RecoversAt(calls, i) ==
    /\ i + 2 <= Len(calls)
    /\ calls[i].op # "refresh" /\ calls[i].answer = "unauthorized"
    /\ calls[i + 1].op = "refresh" /\ calls[i + 1].answer = "ok"
    /\ calls[i + 2].op = calls[i].op /\ calls[i + 2].answer = "ok"

\* C9: when a CRM request answers 401, the refresh exchange succeeds and the
\* replayed request answers 2xx, the operation succeeds (the delivery goes on
\* to its next operation, or is processed if it was the last), exactly one
\* refresh was made for it, the request was sent exactly twice, and the replay
\* carried the access token that refresh wrote.
RecoversOnce ==
    \A i \in DOMAIN last.calls :
        RecoversAt(last.calls, i) =>
            LET calls == last.calls
                op == calls[i].op
            IN  /\ RequestsFor(calls, op) = {i, i + 2}
                /\ RefreshesFor(calls, op) = {i + 1}
                /\ calls[i].retryOn401 /\ ~calls[i + 2].retryOn401
                /\ calls[i + 2].token = AccessOf(calls[i + 1].pair)
                /\ calls[i + 2].token # calls[i].token
                /\ IF i + 2 = Len(calls)
                   THEN op = "addLeadNote" /\ last.outcome = "processed"
                   ELSE /\ calls[i + 3].op \notin {op, "refresh"}
                        /\ calls[i + 3].retryOn401

\* C9 happens: a processed delivery whose lead creation was answered 401,
\* refreshed and replayed
RecoversOnceWitness ==
    /\ last.outcome = "processed"
    /\ RecoversAt(last.calls, 1)
    /\ last.calls[1].op = "createLead"
    /\ last.leadId # NoId

\* in a log, each operation has at most two requests and at most one refresh,
\* and a 401 on a first attempt is followed by a refresh or by the replay
BoundedIn(calls) ==
    \A i \in DOMAIN calls :
        /\ Cardinality(RequestsFor(calls, calls[i].for)) <= 2
        /\ Cardinality(RefreshesFor(calls, calls[i].for)) <= 1
        /\ (calls[i].op # "refresh" /\ calls[i].answer = "unauthorized"
              /\ calls[i].retryOn401 /\ i < Len(calls)) =>
                 \/ calls[i + 1].op = "refresh"
                 \/ calls[i + 1].op = calls[i].op /\ ~calls[i + 1].retryOn401

\* C10: under authorization failure each operation of a delivery sends at most
\* two requests and makes at most one refresh attempt, whether the delivery has
\* ended or not; a 401 is never followed by a further first attempt; and a 401
\* on the replay is the delivery's final request, which ends in the failure
\* outcome.
BoundedRetry ==
    /\ BoundedIn(last.calls)
    /\ \A t \in TaskIds : BoundedIn(task[t].calls)
    /\ \A i \in DOMAIN last.calls :
          (last.calls[i].op # "refresh" /\ last.calls[i].answer = "unauthorized"
              /\ ~last.calls[i].retryOn401) =>
                 /\ i = Len(last.calls)
                 /\ last.outcome = "failed"
                 /\ last.status = 500

\* C10 happens: 401, a refresh, 401 again, and the delivery failed
BoundedRetryWitness ==
    /\ last.outcome = "failed"
    /\ Len(last.calls) = 3
    /\ last.calls[1].answer = "unauthorized"
    /\ last.calls[2].op = "refresh"
    /\ last.calls[3].answer = "unauthorized"
    /\ crm.leads = 0

\* C11: a CRM object request answered with a non-2xx status other than 401 is
\* not sent again and causes no refresh: it is the final request of its
\* delivery, which fails at once with the remote-call error (500 to the
\* caller); when it was a first attempt it is the operation's only request.
\* No delivery in flight has such an answer behind it.
NonAuthFailureNotRetried ==
    /\ \A i \in DOMAIN last.calls :
          (last.calls[i].op # "refresh" /\ last.calls[i].answer = "error") =>
              /\ i = Len(last.calls)
              /\ last.outcome = "failed"
              /\ last.status = 500
              /\ last.error = "non-2xx"
              /\ last.calls[i].retryOn401 =>
                    /\ RequestsFor(last.calls, last.calls[i].op) = {i}
                    /\ RefreshesFor(last.calls, last.calls[i].op) = {}
    /\ \A t \in TaskIds : \A i \in DOMAIN task[t].calls : ~Fatal(task[t].calls[i])

\* C11 happens: after the lead was created, the contact creation was answered
\* with a non-2xx status and the delivery failed there
NonAuthFailureNotRetriedWitness ==
    /\ last.outcome = "failed"
    /\ Len(last.calls) = 2
    /\ last.calls[1].op = "createLead" /\ last.calls[1].answer = "ok"
    /\ last.calls[2].op = "createContact" /\ last.calls[2].answer = "error"
    /\ last.calls[2].retryOn401

\* no refresh is between its two writes to the Credential Store
NoRefreshWriting == \A t \in TaskIds : task[t].pc \notin {"setAccess", "setRefresh"}

\* C12: whenever no refresh is in the middle of its writes, the access token
\* and the refresh token in the Credential Store come from one and the same
\* refresh response (or none has been stored).
WholeCredentialPair ==
    NoRefreshWriting => kvGet(kv, KV_ACCESS).n = kvGet(kv, KV_REFRESH).n

\* the token of the delivery completed last
LastToken == Events[last.ev].token

\* C13: every ledger write of a delivery, whatever ran concurrently with it,
\* leaves exactly the records there were plus the one of its token; that
\* record's lead id is non-null and is the lead id the writing delivery
\* returns; and a write onto an existing record merges: it keeps the stored
\* contact id when the delivery has none.
ConcurrentDeliveriesMerge ==
    [][ledger' # ledger =>
          /\ last'.outcome = "processed"
          /\ DOMAIN ledger' = DOMAIN ledger \cup {LastToken'}
          /\ \A k \in DOMAIN ledger \ {LastToken'} : ledger'[k] = ledger[k]
          /\ ledger'[LastToken'].amo_lead_id # NoId
          /\ ledger'[LastToken'].amo_lead_id = last'.leadId
          /\ LastToken' \in DOMAIN ledger =>
                ledger'[LastToken'].amo_contact_id =
                    IF last'.contactId # NoId THEN last'.contactId
                    ELSE ledger[LastToken'].amo_contact_id
      ]_vars

\* C13 happens: two overlapping deliveries for token t1 each created a lead;
\* the one that created lead 1 wrote the ledger last, onto the other's record
ConcurrentDeliveriesMergeWitness ==
    /\ last.outcome = "processed"
    /\ last.ovl
    /\ crm.leads = 2
    /\ now = 2
    /\ DOMAIN ledger = {"t1"}
    /\ last.leadId = 1
    /\ ledger["t1"].amo_lead_id = 1

\* C14: an event without its response token or its form id never occupies a
\* handler task (so no lookup, request or write is made for it); its delivery
\* is answered as rejected (400) with no request sent and no record looked up;
\* and the step that rejects it changes neither the ledger, nor the Credential
\* Store, nor the CRM, nor any task.
MalformedRejected ==
    /\ [](\A t \in TaskIds : Active(t) => WellFormed(task[t].ev))
    /\ []((last.n > 0 /\ ~WellFormed(last.ev)) =>
              /\ last.outcome = "rejected"
              /\ last.status = 400
              /\ last.calls = <<>>
              /\ ~last.found
              /\ last.ledgerUnchanged)
    /\ [][(last' # last /\ last'.outcome = "rejected") =>
              /\ ~WellFormed(last'.ev)
              /\ UNCHANGED <<ledger, now, kv, crm, task, failed>>
         ]_vars

\* C14 happens: with a record in the ledger, an event without form id was
\* rejected
MalformedRejectedWitness ==
    /\ last.outcome = "rejected"
    /\ ~Truthy(Events[last.ev].form_id)
    /\ Truthy(Events[last.ev].token)
    /\ ledger # <<>>
    /\ kvGet(kv, KV_ACCESS) # NoTok

\* the token a request must carry now: the stored one, else the configured one
ExpectedToken ==
    IF kvGet(kv, KV_ACCESS) # NoTok THEN kvGet(kv, KV_ACCESS)
    ELSE IF config.accessToken THEN StaticAccess
    ELSE NoTok

\* C15: when a task reads the access token for a request, it takes the token
\* in the Credential Store if one is stored, otherwise the configured one, and
\* goes on to send the request with it; when there is neither, the delivery
\* fails with the configuration error, having sent no request and attempted no
\* refresh, and nothing remote or stored changes.
TokenAcquisition ==
    [][\A t \in TaskIds :
          (task[t].pc = "getToken" /\ task'[t] # task[t]) =>
              IF ExpectedToken # NoTok
              THEN /\ task'[t].pc = "fetch"
                   /\ task'[t].token = ExpectedToken
                   /\ task'[t].calls = task[t].calls
              ELSE /\ task'[t].pc = "idle"
                   /\ last'.outcome = "failed"
                   /\ last'.error = "No amoCRM access token"
                   /\ last'.calls = <<>>
                   /\ UNCHANGED <<kv, crm, ledger>>
      ]_vars

\* C15 happens: a request is about to be sent with the stored token of a
\* refresh although a token is configured too
TokenAcquisitionWitness ==
    /\ config.accessToken
    /\ task["A"].pc = "fetch"
    /\ kvGet(kv, KV_ACCESS) = AccessOf(1)
    /\ task["A"].token = AccessOf(1)
    /\ task["A"].retryOn401

\* client id, client secret and redirect URI are all configured
OAuthConfigured == config.clientId /\ config.clientSecret /\ config.redirectUri

\* the log of task t has grown by exactly its request, answered 401
Got401(t) ==
    /\ task[t].pc = "fetch"
    /\ Len(task'[t].calls) = Len(task[t].calls) + 1
    /\ task'[t].calls[Len(task'[t].calls)].answer = "unauthorized"
    /\ task[t].retryOn401

\* C16: the token endpoint is contacted only when client id, client secret and
\* redirect URI are all configured; without them a 401 on a first attempt
\* leads straight to the single replay, with the Credential Store unchanged
\* and no exchange made; and a refresh whose exchange succeeded has, when it
\* returns to the replay, overwritten both the access-token and the
\* refresh-token entry with the returned pair.
RefreshProtocol ==
    /\ [](\A t \in TaskIds :
            /\ (\E i \in DOMAIN task[t].calls : task[t].calls[i].op = "refresh")
                  => OAuthConfigured
            /\ task[t].pc \in {"refreshRead", "refreshFetch", "setAccess", "setRefresh"}
                  => OAuthConfigured)
    /\ []((\E i \in DOMAIN last.calls : last.calls[i].op = "refresh") => OAuthConfigured)
    /\ [][\A t \in TaskIds :
            /\ (Got401(t) /\ ~OAuthConfigured) =>
                  /\ task'[t].pc = "getToken"
                  /\ ~task'[t].retryOn401
                  /\ task'[t].op = task[t].op
                  /\ UNCHANGED <<kv, crm>>
            /\ (task[t].pc = "refreshFetch" /\ task'[t].pc = "setAccess") =>
                  /\ task'[t].pair = crm'.pairs
                  /\ crm'.pairs = crm.pairs + 1
            /\ (task[t].pc = "setRefresh" /\ task'[t] # task[t]) =>
                  /\ kvGet(kv', KV_ACCESS) = AccessOf(task[t].pair)
                  /\ kvGet(kv', KV_REFRESH) = RefreshOf(task[t].pair)
                  /\ task'[t].pc = "getToken"
                  /\ ~task'[t].retryOn401
       ]_vars

\* C16 happens: with client id and secret but no redirect URI configured, a
\* 401 was followed directly by the replay, nothing was stored, and the
\* delivery was processed
RefreshProtocolWitness ==
    /\ config.clientId /\ config.clientSecret /\ ~config.redirectUri
    /\ config.refreshToken
    /\ last.outcome = "processed"
    /\ last.calls[1].answer = "unauthorized"
    /\ last.calls[2].op = last.calls[1].op
    /\ ~last.calls[2].retryOn401
    /\ kvGet(kv, KV_ACCESS) = NoTok /\ kvGet(kv, KV_REFRESH) = NoTok

\* what a rule proposes for a field
Cand(fieldId, value, enumId) == [field_id |-> fieldId, value |-> value, enum_id |-> enumId]

RECURSIVE Flatten(_)
Flatten(ss) == IF ss = <<>> THEN <<>> ELSE Head(ss) \o Flatten(Tail(ss))

If(cond, c) == IF cond THEN <<c>> ELSE <<>>

\* the proposals of the three rule groups, in rule order
HiddenCands(hidden) ==
    Flatten([i \in 1..Len(hidden) |->
        IF hidden[i].k \in DOMAIN HIDDEN_TO_LEAD_FIELD_ID
        THEN <<Cand(HIDDEN_TO_LEAD_FIELD_ID[hidden[i].k], hidden[i].v, NoId)>>
        ELSE <<>>])

StaticCands(as) ==
    Flatten([i \in 1..Len(as) |->
        LET a == as[i]
            key == IF a.ref # Null THEN a.ref ELSE a.id
        IN  If(key \in DEFAULT_REFS.fullName, Cand(LEAD_FIELD.fullName, a.text, NoId))
            \o If(key \in DEFAULT_REFS.childName, Cand(LEAD_FIELD.childName1, a.text, NoId))
            \o If(key \in DEFAULT_REFS.childDob,
                  Cand(LEAD_FIELD.childDob1, toAmoDateTime(a.date), NoId))
            \o If(key \in DEFAULT_REFS.desiredProgram,
                  Cand(LEAD_FIELD.desiredProgram, Undef, mapDesiredProgramEnum(a.choice_label)))
            \o If(key \in DEFAULT_REFS.currentEducation,
                  Cand(LEAD_FIELD.currentEducation, a.choice_label, NoId))])

DynamicCands(as, map) ==
    Flatten([i \in 1..Len(as) |->
        LET a == as[i]
            key == IF a.ref # Null THEN a.ref ELSE a.id
        IN  IF key \in DOMAIN map /\ map[key].entity = "lead"
            THEN <<Cand(map[key].fieldId, getAnswerString(a), NoId)>>
            ELSE <<>>])

Candidates(payload, map) ==
    HiddenCands(payload.hidden) \o StaticCands(payload.answers)
        \o DynamicCands(payload.answers, map)

\* the proposal carries something to assign
NonEmptyCand(c) == (c.value # Undef /\ Trim(c.value) # <<>>) \/ c.enum_id # NoId

\* the proposals that win: non-empty, and no later non-empty one for the field
Winners(payload, map) ==
    LET kept == SelectSeq(Candidates(payload, map), NonEmptyCand)
    IN  {[kept[i] EXCEPT !.value = IF @ # Undef THEN Trim(@) ELSE Undef] :
            i \in {j \in DOMAIN kept :
                      \A l \in DOMAIN kept : l > j => kept[l].field_id # kept[j].field_id}}

MapperOut == mapper[1].out
MapperIn == mapper[1].payload

\* C17: the mapper's output holds at most one assignment per field id, and its
\* assignments are exactly, for each field, the last non-empty proposal in the
\* order hidden parameters, statically mapped answers, dynamically mapped
\* answers.
FieldMappingPrecedence ==
    (mapper # <<>> /\ mapper[1].done) =>
        /\ \A i, j \in DOMAIN MapperOut :
              i # j => MapperOut[i].field_id # MapperOut[j].field_id
        /\ {MapperOut[i] : i \in DOMAIN MapperOut} = Winners(MapperIn, mapper[1].map)

\* C17 happens: hidden utm_source=ads and a dynamic mapping of the note answer
\* to the utm_source field: the field holds the answer's text
FieldMappingPrecedenceWitness ==
    /\ mapper # <<>>
    /\ mapper[1].done
    /\ MapperIn.hidden = <<[k |-> "utm_source", v |-> <<" ", "a", "d", "s">>]>>
    /\ "ref_note" \in DOMAIN mapper[1].map
    /\ mapper[1].map["ref_note"].fieldId = 214697
    /\ MapperOut = <<[field_id |-> 214697, value |-> <<"x">>, enum_id |-> NoId]>>

\* the answers of the payload for the enum-mapped field (desired program)
ProgramAnswers ==
    SelectSeq(MapperIn.answers, LAMBDA a : a.ref \in DEFAULT_REFS.desiredProgram)

\* the field map aims at the enum-mapped field
MapAimsAtProgram ==
    \E k \in DOMAIN mapper[1].map :
        /\ mapper[1].map[k].entity = "lead"
        /\ mapper[1].map[k].fieldId = LEAD_FIELD.desiredProgram

UnknownLabel == <<"O", "t", "h", "e", "r">>

\* C18: every assignment of the mapper's output that has a text value has it
\* trimmed and non-empty, and one without a text value has an enum id; and
\* when the answers for the enum-mapped field all carry an unrecognized label
\* (and no other rule aims at that field), the mapper still returns and its
\* output has no assignment for that field.
MapperDropsEmpties ==
    (mapper # <<>> /\ mapper[1].done) =>
        /\ \A i \in DOMAIN MapperOut :
              IF MapperOut[i].value # Undef
              THEN /\ MapperOut[i].value = Trim(MapperOut[i].value)
                   /\ Len(MapperOut[i].value) > 0
              ELSE MapperOut[i].enum_id # NoId
        /\ (/\ ProgramAnswers # <<>>
            /\ \A i \in DOMAIN ProgramAnswers : ProgramAnswers[i].choice_label = UnknownLabel
            /\ ~MapAimsAtProgram) =>
               \A i \in DOMAIN MapperOut : MapperOut[i].field_id # LEAD_FIELD.desiredProgram

\* C18 happens: a blank hidden utm_source, a full name with spaces around it
\* and a desired-program answer with an unrecognized label give one
\* assignment, the trimmed name
MapperDropsEmptiesWitness ==
    /\ mapper # <<>>
    /\ mapper[1].done
    /\ MapperIn.hidden = <<[k |-> "utm_source", v |-> <<" ", " ">>]>>
    /\ Len(MapperIn.answers) = 2
    /\ MapperIn.answers[1].text = <<" ", "J", "o", " ">>
    /\ MapperIn.answers[2].choice_label = UnknownLabel
    /\ MapperOut = <<[field_id |-> LEAD_FIELD.fullName, value |-> <<"J", "o">>,
                      enum_id |-> NoId]>>

\* C19: every delivery for a token that has a record and that is answered as
\* processed or as a duplicate updates that record in place, and leaves the
\* delivery's event as its last_payload.
UpdatedOnEveryDelivery ==
    [][(/\ last' # last
        /\ last'.outcome \in {"processed", "duplicate"}
        /\ LastToken' \in DOMAIN ledger) =>
            /\ ledger'[LastToken'] # ledger[LastToken']
            /\ ledger'[LastToken'].last_payload = last'.ev
      ]_vars

\* C20: after a delivery was processed, the record of its token has the
\* last_event_id and last_event_type of that delivery's event, also when the
\* event carries none.
LastEventIdentifiesLatest ==
    last.outcome = "processed" =>
        /\ ledger[LastToken].last_event_id = Events[last.ev].event_id
        /\ ledger[LastToken].last_event_type = Events[last.ev].event_type

\* the custom-field update, when the mapped field set is not empty, and the note
FieldsThenNote(e) ==
    (IF Len(buildLeadCustomFields(Events[e], TYPEFORM_FIELD_MAP)) > 0
     THEN <<"updateLeadCustomFields">> ELSE <<>>)
        \o <<"addLeadNote">>

\* the delivery was processed with the lead of the record found, which names no
\* contact, and its event names a contact
ExistingLeadNoContact(entry) ==
    /\ entry.outcome = "processed"
    /\ entry.existingLeadId # NoId
    /\ entry.existingContactId = NoId
    /\ hasContactBits(extractContactBits(Events[entry.ev]))

\* C21: a processed delivery that reuses a lead without a known contact and
\* whose event names a contact calls exactly create-contact, link, the
\* custom-field update (when there are fields) and add-note: no lead-create,
\* no contact-update.
ExistingLeadNoContactCalls ==
    ExistingLeadNoContact(last) =>
        Ops(last.calls) = <<"createContact", "linkLeadToContact">> \o FieldsThenNote(last.ev)

\* the delivery was processed with the lead and the contact of the record found
ExistingLeadKnownContact(entry) ==
    /\ entry.outcome = "processed"
    /\ entry.existingLeadId # NoId
    /\ entry.existingContactId # NoId

\* C22: a processed delivery that reuses a lead and its known contact creates
\* neither and returns both stored ids; with a contact field in the event it
\* calls contact-update and link before the custom-field update (if any) and
\* the note, and with none it calls only the custom-field update (if any) and
\* the note.
KnownContactReused ==
    ExistingLeadKnownContact(last) =>
        /\ last.leadId = last.existingLeadId
        /\ last.contactId = last.existingContactId
        /\ \A i \in DOMAIN last.calls :
              last.calls[i].op \notin {"createLead", "createContact"}
        /\ Ops(last.calls) =
              (IF hasContactBits(extractContactBits(Events[last.ev]))
               THEN <<"updateContact", "linkLeadToContact">> ELSE <<>>)
                  \o FieldsThenNote(last.ev)

\* the places of a log where a request for operation op was sent
CallsOf(calls, op) == {i \in DOMAIN calls : calls[i].op = op}

\* how often operation op was asked for
Asked(calls, op) == Cardinality({i \in DOMAIN Ops(calls) : Ops(calls)[i] = op})

\* C23: a processed delivery asked for add-note exactly once, for the lead id
\* it returns, as the last of its operations (every request sent after the
\* first note request belongs to the note), and asked for at most one link.
NoteOnceAndLast ==
    last.outcome = "processed" =>
        LET ops == Ops(last.calls)
            notes == CallsOf(last.calls, "addLeadNote")
            first == CHOOSE i \in notes : \A j \in notes : i <= j
        IN  /\ Asked(last.calls, "addLeadNote") = 1
            /\ ops[Len(ops)] = "addLeadNote"
            /\ \A i \in notes : last.calls[i].leadId = last.leadId
            /\ \A i \in DOMAIN last.calls :
                  i > first => \/ last.calls[i].op = "addLeadNote"
                               \/ /\ last.calls[i].op = "refresh"
                                  /\ last.calls[i].for = "addLeadNote"
            /\ Asked(last.calls, "linkLeadToContact") <= 1

\* C23 happens: a delivery that reused a lead and a contact and had no contact
\* field was processed, its note sent twice around a refresh
NoteOnceAndLastWitness ==
    /\ last.outcome = "processed"
    /\ last.existingLeadId # NoId
    /\ last.existingContactId # NoId
    /\ ~hasContactBits(extractContactBits(Events[last.ev]))
    /\ Cardinality(CallsOf(last.calls, "addLeadNote")) = 2

\* the records of a ledger that an event's landing-id lookup matches
OnLanding(l, e) ==
    {k \in DOMAIN l : l[k].form_id = Events[e].form_id
                      /\ l[k].landing_id = Events[e].landing_id}

\* C24: a delivery whose token has no record, that carries a landing id and
\* for whose (form id, landing id) records exist, takes the most recently
\* updated of them as prior state: with that record's last_event_id equal to
\* the event id it is a duplicate, sends no request and writes nothing,
\* otherwise it creates no lead, reuses the record's lead and contact ids and,
\* when processed, stores them under the new token.  Without a landing id, or
\* without such a record, it starts from nothing and creates a lead.
LandingFallback ==
    [][(/\ last' # last
        /\ last'.outcome # "rejected"
        /\ LastToken' \notin DOMAIN ledger) =>
          LET e == last'.ev
              m == OnLanding(ledger, e)
              IsCreateLead(c) == c.op = "createLead"
          IN  IF Truthy(Events[e].landing_id) /\ m # {}
              THEN \E k \in m :
                     /\ \A o \in m \ {k} : ledger[o].updated_at < ledger[k].updated_at
                     /\ IF ledger[k].last_event_id = Events[e].event_id
                        THEN /\ last'.outcome = "duplicate"
                             /\ last'.calls = <<>>
                             /\ ledger' = ledger
                        ELSE /\ last'.outcome \in {"processed", "failed"}
                             /\ last'.existingLeadId = ledger[k].amo_lead_id
                             /\ last'.existingContactId = ledger[k].amo_contact_id
                             /\ SelectSeq(last'.calls, IsCreateLead) = <<>>
                             /\ last'.outcome = "processed" =>
                                  /\ last'.leadId = ledger[k].amo_lead_id
                                  /\ LastToken' \in DOMAIN ledger'
                                  /\ ledger'[LastToken'].amo_lead_id = ledger[k].amo_lead_id
                                  /\ ledger[k].amo_contact_id # NoId =>
                                       ledger'[LastToken'].amo_contact_id
                                           = ledger[k].amo_contact_id
              ELSE /\ last'.outcome \in {"processed", "failed"}
                   /\ last'.existingLeadId = NoId
                   /\ last'.calls # <<>> /\ last'.calls[1].op = "createLead"
      ]_vars

\* C24 happens: of two records on the landing page the later one carried the
\* event id of the third response, which was answered as a duplicate
LandingFallbackWitness ==
    /\ last.outcome = "duplicate"
    /\ last.found /\ ~last.byToken
    /\ DOMAIN ledger = {"t1", "t2"}
    /\ ledger["t1"].updated_at > ledger["t2"].updated_at

\* every delivery so far was of an event of response token tok, was accepted,
\* and every request made for it was answered 2xx
OnlyCleanDeliveriesFor(tok) ==
    /\ \A e \in delivered : WellFormed(e) /\ Events[e].token = tok
    /\ faults = 0
    /\ failed = 0

\* C25: while only events of one response token are delivered, one after
\* another and every request succeeding, whatever their event ids and order,
\* one lead and at most one contact are created in total, and every delivery
\* answers with that lead's id.
OneLeadPerToken ==
    OnlyCleanDeliveriesFor("t1") =>
        /\ crm.leads <= 1
        /\ crm.contacts <= 1
        /\ last.n >= 1 => crm.leads = 1 /\ last.leadId = 1

\* C25 happens: event 1 was processed, then event 2, then event 1 again, which
\* is not the latest applied and was processed with the lead and the contact
\* made by its first delivery
OneLeadPerTokenWitness ==
    /\ OnlyCleanDeliveriesFor("t1")
    /\ delivered = {1, 2}
    /\ last.n = 3 /\ last.ev = 1
    /\ last.outcome = "processed"
    /\ last.existingContactId = 1
    /\ last.leadId = 1

\* C26: the ledger changes only when a delivery is processed, and then only in
\* the record of that delivery's response token: no record is removed and
\* every record of another token is as it was, the record found by landing id
\* included.
FrameOfDelivery ==
    [][ledger' # ledger =>
          /\ last' # last
          /\ last'.outcome = "processed"
          /\ DOMAIN ledger' = DOMAIN ledger \cup {LastToken'}
          /\ \A k \in DOMAIN ledger \ {LastToken'} : ledger'[k] = ledger[k]
          /\ ledger'[LastToken'].response_token = LastToken'
      ]_vars

\* C26 happens: the response t2 was processed with the lead found under t1 by
\* landing id, and the record of t1 is as event 1 left it
FrameOfDeliveryWitness ==
    /\ last.outcome = "processed"
    /\ last.ev = 4
    /\ last.found /\ ~last.byToken
    /\ DOMAIN ledger = {"t1", "t2"}
    /\ ledger["t2"].amo_lead_id = ledger["t1"].amo_lead_id
    /\ ledger["t1"].last_payload = 1
    /\ ledger["t1"].updated_at < ledger["t2"].updated_at

\* a request to the token endpoint that was answered non-2xx
FailedRefresh(call) == call.op = "refresh" /\ call.answer = "error"

\* C27: when the token endpoint answers a refresh with non-2xx, that request
\* is the delivery's last (the request answered 401 is not sent again), the
\* delivery fails at once with the refresh error, and the step changes neither
\* entry of the credential store, nor the ledger, nor the CRM.
RefreshFailureFails ==
    [][/\ \A t \in TaskIds : \A i \in DOMAIN task'[t].calls :
             ~FailedRefresh(task'[t].calls[i])
       /\ last' # last =>
             \A i \in DOMAIN last'.calls :
                 FailedRefresh(last'.calls[i]) =>
                     /\ i = Len(last'.calls)
                     /\ i > 1 /\ last'.calls[i - 1].answer = "unauthorized"
                     /\ last'.calls[i - 1].op = last'.calls[i].for
                     /\ last'.outcome = "failed"
                     /\ last'.status = 500
                     /\ last'.error = "amoCRM refresh failed"
                     /\ kv' = kv
                     /\ ledger' = ledger
                     /\ crm' = crm
      ]_vars

\* C27 happens: the note, the last request of a new lead's reconciliation, was
\* answered 401 and the refresh for it failed
RefreshFailureFailsWitness ==
    /\ last.outcome = "failed"
    /\ last.error = "amoCRM refresh failed"
    /\ Len(last.calls) > 2
    /\ FailedRefresh(last.calls[Len(last.calls)])
    /\ last.calls[Len(last.calls)].for = "addLeadNote"
    /\ crm.leads = 1
    /\ ledger = <<>>
    /\ \A k \in DOMAIN kv : kv[k] = NoTok

====
